---- MODULE Spec2Model ----
(***************************************************************************)
(* Word boxes (src/main.rs): the word filter, the two lexicons, the        *)
(* WordBox value and the frontier search solve_word_box, with the driver   *)
(* loop of main.                                                           *)
(*                                                                         *)
(* A Rust String is modelled as the sequence of its chars, each char a     *)
(* one-element name ("a", "C", "e_acute").  len() counts UTF-8 bytes,      *)
(* chars().nth(i) counts chars and word[..i] slices at a byte offset, so   *)
(* the byte width of every char is part of the model (Utf8Len).            *)
(***************************************************************************)
EXTENDS Naturals, Sequences, FiniteSets

(***************************************************************************)
(* Bounds of the model.                                                    *)
(***************************************************************************)
MaxDim == 2
MaxWords == 3
MaxFairWords == 2
MaxLexWords == 2
MaxLexBytes == 2
MaxLines == 2
MaxLineLen == 1

(***************************************************************************)
(* Characters.                                                             *)
(***************************************************************************)
\* U+00E9, a lowercase alphabetic char that takes two bytes in UTF-8.
EAcute == "e_acute"

UpperChars == {"C"}
PunctChars == {"!"}
SpaceChars == {" "}
LowerChars == {"a", "b", "c", "d", "f", "g", "h", "i", "o", "r", "s", "t", EAcute}

\* char::len_utf8
Utf8Len(c) == IF c = EAcute THEN 2 ELSE 1

\* char::is_uppercase
is_uppercase(c) == c \in UpperChars

\* char::is_ascii_punctuation
is_ascii_punctuation(c) == c \in PunctChars

\* char::is_whitespace
is_whitespace(c) == c \in SpaceChars

\* char::is_lowercase /\ char::is_alphabetic (used by the properties only)
IsLowerLetter(c) == c \in LowerChars

(***************************************************************************)
(* Strings.                                                                *)
(***************************************************************************)
RECURSIVE ByteLen(_)
\* str::len: the number of bytes, not of chars
ByteLen(w) == IF w = <<>> THEN 0 ELSE Utf8Len(Head(w)) + ByteLen(Tail(w))

\* str::is_char_boundary
IsCharBoundary(w, i) == \E k \in 0..Len(w) : ByteLen(SubSeq(w, 1, k)) = i

\* &word[..i] where i is a char boundary
SliceTo(w, i) ==
  LET k == CHOOSE k \in 0..Len(w) : ByteLen(SubSeq(w, 1, k)) = i
  IN  SubSeq(w, 1, k)

\* str::starts_with
StartsWith(w, p) == Len(p) <= Len(w) /\ SubSeq(w, 1, Len(p)) = p

\* Vec::contains
Contains(s, x) == \E i \in 1..Len(s) : s[i] = x

\* All strings over chars of at most n chars
StringsUpTo(chars, n) == UNION {[1..k -> chars] : k \in 0..n}

\* All vectors over elems of at most n elements
VecsUpTo(elems, n) == UNION {[1..k -> elems] : k \in 0..n}

(***************************************************************************)
(* VecLexicon                                                              *)
(***************************************************************************)
VecInitialize(words, lengths) ==
  [words |-> SelectSeq(words, LAMBDA w : Contains(lengths, ByteLen(w)))]

VecWordsWithPrefix(lex, prefix, word_len) ==
  SelectSeq(lex.words, LAMBDA w : StartsWith(w, prefix) /\ ByteLen(w) = word_len)

(***************************************************************************)
(* HashMapLexicon.  initialize returns [panic |-> TRUE] when a slice       *)
(* word[..i] falls inside a char (the thread panics), and otherwise the    *)
(* map from every prefix to the words pushed under it, in insertion order. *)
(***************************************************************************)
RECURSIVE InsertPrefixes(_, _, _)
\* for i in i..=word.len() { map.entry(word[..i]).or_default().push(word) }
InsertPrefixes(m, word, i) ==
  IF m.panic \/ i > ByteLen(word) THEN m
  ELSE IF ~IsCharBoundary(word, i) THEN [panic |-> TRUE, words |-> m.words]
  ELSE LET key == SliceTo(word, i)
           old == IF key \in DOMAIN m.words THEN m.words[key] ELSE <<>>
           new == [k \in DOMAIN m.words \cup {key} |->
                     IF k = key THEN Append(old, word) ELSE m.words[k]]
       IN  InsertPrefixes([panic |-> FALSE, words |-> new], word, i + 1)

RECURSIVE InsertWords(_, _, _, _)
\* for word in words.iter() { if lengths.contains(&word.len()) { ... } }
InsertWords(m, words, lengths, n) ==
  IF m.panic \/ n > Len(words) THEN m
  ELSE IF Contains(lengths, ByteLen(words[n]))
       THEN InsertWords(InsertPrefixes(m, words[n], 0), words, lengths, n + 1)
       ELSE InsertWords(m, words, lengths, n + 1)

HashMapInitialize(words, lengths) ==
  InsertWords([panic |-> FALSE, words |-> <<>>], words, lengths, 1)

HashMapWordsWithPrefix(lex, prefix, word_len) ==
  LET found == IF prefix \in DOMAIN lex.words THEN lex.words[prefix] ELSE <<>>
  IN  SelectSeq(found, LAMBDA w : ByteLen(w) = word_len)

(***************************************************************************)
(* WordBox                                                                 *)
(***************************************************************************)
WordBox(rd, cd, rows, cols, sym) ==
  [row_dim |-> rd, col_dim |-> cd, rows |-> rows, cols |-> cols,
   is_symmetric |-> sym]

\* is_done off by one: a box one row short counts as done
is_done_early(b) == Len(b.rows) + 1 >= b.row_dim

is_done(b) == Len(b.rows) = b.row_dim

\* word.chars().nth(i) is None for some word: unwrap panics
TakeIthPanics(words, i) == \E k \in 1..Len(words) : Len(words[k]) <= i

\* the i-th char (from 0) of every word, in order
take_ith_characters(words, i) == [k \in 1..Len(words) |-> words[k][i + 1]]

\* The lexicon handed to the search is the one main builds, a HashMapLexicon.
words_with_prefix(lex, prefix, word_len) ==
  HashMapWordsWithPrefix(lex, prefix, word_len)

RECURSIVE ValidFrom(_, _, _, _)
\* the loop of is_valid_move from column i on: "true", "false" or "panic"
ValidFrom(b, rows, lex, i) ==
  IF i >= b.col_dim THEN "true"
  ELSE IF TakeIthPanics(rows, i) THEN "panic"
  ELSE IF words_with_prefix(lex, take_ith_characters(rows, i), b.row_dim) = <<>>
       THEN "false"
       ELSE ValidFrom(b, rows, lex, i + 1)

\* is_valid_move with "return true" inside the loop: only column 0 is looked at
is_valid_move_first_column(b, word, lex) ==
  IF b.col_dim = 0 THEN "true"
  ELSE IF TakeIthPanics(Append(b.rows, word), 0) THEN "panic"
  ELSE IF words_with_prefix(lex, take_ith_characters(Append(b.rows, word), 0),
                            b.row_dim) = <<>>
       THEN "false"
       ELSE "true"

RECURSIVE ValidFromColLen(_, _, _, _)
ValidFromColLen(b, rows, lex, i) ==
  IF i >= b.col_dim THEN "true"
  ELSE IF TakeIthPanics(rows, i) THEN "panic"
  ELSE IF words_with_prefix(lex, take_ith_characters(rows, i), b.col_dim) = <<>>
       THEN "false"
       ELSE ValidFromColLen(b, rows, lex, i + 1)

\* is_valid_move asking for completions of length col_dim, not row_dim
is_valid_move_col_len(b, word, lex) ==
  ValidFromColLen(b, Append(b.rows, word), lex, 0)

is_valid_move(b, word, lex) == ValidFrom(b, Append(b.rows, word), lex, 0)

\* add_word without the test of is_symmetric: cols always grows
add_word_cols_always(b, word) ==
  [row_dim |-> b.row_dim,
   col_dim |-> b.col_dim,
   rows |-> Append(b.rows, word),
   cols |-> Append(b.cols, word),
   is_symmetric |-> b.is_symmetric]

add_word(b, word) ==
  [row_dim |-> b.row_dim,
   col_dim |-> b.col_dim,
   rows |-> Append(b.rows, word),
   cols |-> IF b.is_symmetric THEN Append(b.cols, word) ELSE b.cols,
   is_symmetric |-> b.is_symmetric]

(***************************************************************************)
(* solve_word_box, one iteration of its loop at a time                     *)
(***************************************************************************)
\* line 217 panics when a word of cols has no char at index rows.len()
PrefixPanics(b) == TakeIthPanics(b.cols, Len(b.rows))

\* the next row's prefix left empty
NextRowPrefix_empty(b) == <<>>

\* line 217: the chars the next row must start with
NextRowPrefix(b) == take_ith_characters(b.cols, Len(b.rows))

\* line 218: the candidates for the next row, in the lexicon's order
Candidates(b, lex) == words_with_prefix(lex, NextRowPrefix(b), b.col_dim)

\* lines 219-225 panic when is_valid_move does on some candidate
ChoicesPanic(b, lex) ==
  \E k \in 1..Len(Candidates(b, lex)) :
    is_valid_move(b, Candidates(b, lex)[k], lex) = "panic"

\* the candidates without the filter
Choices_unfiltered(b, lex) == Candidates(b, lex)

\* lines 219-221: the candidates that pass is_valid_move
Choices(b, lex) ==
  SelectSeq(Candidates(b, lex), LAMBDA w : is_valid_move(b, w, lex) = "true")

\* front() in place of pop_front(): the box stays in the frontier
PopFront_keeps(q) == q

\* line 210: what pop_front leaves in the frontier
PopFront(q) == Tail(q)

Reverse(s) == [i \in 1..Len(s) |-> s[Len(s) + 1 - i]]

\* push_back in place of push_front
PushFrontAll_back(rest, items) == rest \o items

\* line 224 in the loop of line 223: each item in turn goes to the front
PushFrontAll(rest, items) == Reverse(items) \o rest

\* lines 223-225: every choice's child is pushed to the front, in order
PushChildren(rest, b, choices) ==
  PushFrontAll(rest, [k \in 1..Len(choices) |-> add_word(b, choices[k])])

\* When the children of one expansion were pushed: in which iteration of
\* the loop, and in which order.
Births(iter, choices) == [k \in 1..Len(choices) |-> [iter |-> iter, k |-> k]]

(***************************************************************************)
(* State.                                                                  *)
(*   filter_words:  file_exists, lines, line_idx, filtered, fpc            *)
(*   the lexicons:  lx_words, lx_lengths, vec_lex, map_lex, query, lpc     *)
(*   main and solve_word_box:  words, row_dim, col_dim, lexicon, mode,     *)
(*     seed_idx (main's iterator), boxes (the frontier), wb (the box last  *)
(*     popped), result, printed (the boxes main has printed), pc, and the  *)
(*     histories pops (the boxes popped so far by the running search) and  *)
(*     born (for each box of the frontier, when it was pushed).            *)
(***************************************************************************)
VARIABLES file_exists, lines, line_idx, filtered, fpc,
          lx_words, lx_lengths, vec_lex, map_lex, query, lpc,
          words, row_dim, col_dim, lexicon, mode, seed_idx, boxes, wb,
          result, printed, pc, pops, born

filterVars == <<file_exists, lines, line_idx, filtered, fpc>>
lexVars == <<lx_words, lx_lengths, vec_lex, map_lex, query, lpc>>
searchVars == <<words, row_dim, col_dim, lexicon, mode, seed_idx, boxes, wb,
                result, printed, pc, pops, born>>
vars == <<filterVars, lexVars, searchVars>>

NoBox == WordBox(0, 0, <<>>, <<>>, FALSE)
None == [some |-> FALSE, box |-> NoBox]
Some(b) == [some |-> TRUE, box |-> b]
NoQuery == [asked |-> FALSE, prefix |-> <<>>, word_len |-> 0,
            vec |-> <<>>, map |-> <<>>]

\* The parts of the state a specification does not use stay as they are here.
FilterIdle ==
  /\ file_exists = FALSE /\ lines = <<>> /\ line_idx = 0
  /\ filtered = <<>> /\ fpc = "idle"

LexIdle ==
  /\ lx_words = <<>> /\ lx_lengths = <<>>
  /\ vec_lex = [init |-> FALSE, words |-> <<>>]
  /\ map_lex = [init |-> FALSE, panic |-> FALSE, words |-> <<>>]
  /\ query = NoQuery /\ lpc = "idle"

SearchIdle ==
  /\ words = <<>> /\ row_dim = 0 /\ col_dim = 0
  /\ lexicon = [panic |-> FALSE, words |-> <<>>]
  /\ mode = "idle" /\ seed_idx = 0 /\ boxes = <<>> /\ wb = NoBox
  /\ result = None /\ printed = <<>> /\ pc = "idle" /\ pops = <<>>
  /\ born = <<>>

(***************************************************************************)
(* filter_words                                                            *)
(***************************************************************************)
\* A line the reader yields: Ok(text) or Err
OkLine(text) == [ok |-> TRUE, text |-> text]
ErrLine == [ok |-> FALSE, text |-> <<>>]

FilterChars == {"a", "C", " ", "!", "1"}

\* "Cat", "dog ", "bird!", "fish"
ExampleFile ==
  << OkLine(<<"C", "a", "t">>), OkLine(<<"d", "o", "g", " ">>),
     OkLine(<<"b", "i", "r", "d", "!">>), OkLine(<<"f", "i", "s", "h">>) >>

Files ==
  VecsUpTo({OkLine(t) : t \in StringsUpTo(FilterChars, MaxLineLen)}
             \cup {ErrLine}, MaxLines)
    \cup {ExampleFile}

\* the closure without the test of whitespace
KeepLine_no_whitespace_test(line) ==
  \A k \in 1..Len(line) :
    /\ ~is_uppercase(line[k])
    /\ ~is_ascii_punctuation(line[k])

\* the closure handed to filter
KeepLine(line) ==
  \A k \in 1..Len(line) :
    /\ ~is_uppercase(line[k])
    /\ ~is_ascii_punctuation(line[k])
    /\ ~is_whitespace(line[k])

FilterInit ==
  /\ file_exists \in BOOLEAN
  /\ lines \in Files
  /\ line_idx = 0 /\ filtered = <<>> /\ fpc = "open"
  /\ LexIdle /\ SearchIdle

\* File::open(filename).expect("Could not open file")
OpenFile ==
  /\ fpc = "open"
  /\ fpc' = IF file_exists THEN "reading" ELSE "panicked"
  /\ UNCHANGED <<file_exists, lines, line_idx, filtered, lexVars, searchVars>>

\* the next line is Ok and passes the filter: it is collected
FilterKeep ==
  /\ fpc = "reading" /\ line_idx < Len(lines)
  /\ lines[line_idx + 1].ok /\ KeepLine(lines[line_idx + 1].text)
  /\ filtered' = Append(filtered, lines[line_idx + 1].text)
  /\ line_idx' = line_idx + 1
  /\ UNCHANGED <<file_exists, lines, fpc, lexVars, searchVars>>

\* the next line is Ok and fails the filter: it is skipped
FilterDrop ==
  /\ fpc = "reading" /\ line_idx < Len(lines)
  /\ lines[line_idx + 1].ok /\ ~KeepLine(lines[line_idx + 1].text)
  /\ line_idx' = line_idx + 1
  /\ UNCHANGED <<file_exists, lines, filtered, fpc, lexVars, searchVars>>

\* map_while(Result::ok) ends at the end of the file or at the first Err
FilterEnd ==
  /\ fpc = "reading"
  /\ IF line_idx = Len(lines) THEN TRUE ELSE ~lines[line_idx + 1].ok
  /\ fpc' = "done"
  /\ UNCHANGED <<file_exists, lines, line_idx, filtered, lexVars, searchVars>>

FilterNext == OpenFile \/ FilterKeep \/ FilterDrop \/ FilterEnd

FilterSpec == FilterInit /\ [][FilterNext]_vars

(***************************************************************************)
(* The two lexicons, built from one word list and queried side by side     *)
(***************************************************************************)
LexChars == {"a", "b", EAcute}

LexStrings == {w \in StringsUpTo(LexChars, MaxLexBytes) : ByteLen(w) <= MaxLexBytes}

LexInit ==
  /\ lx_words \in VecsUpTo(LexStrings, MaxLexWords)
  /\ lx_lengths \in VecsUpTo(0..MaxLexBytes, 2)
  /\ vec_lex = [init |-> FALSE, words |-> <<>>]
  /\ map_lex = [init |-> FALSE, panic |-> FALSE, words |-> <<>>]
  /\ query = NoQuery /\ lpc = "start"
  /\ FilterIdle /\ SearchIdle

InitializeVec ==
  /\ lpc = "start" /\ ~vec_lex.init
  /\ vec_lex' = [init |-> TRUE,
                 words |-> VecInitialize(lx_words, lx_lengths).words]
  /\ lpc' = IF map_lex.init THEN "ready" ELSE "start"
  /\ UNCHANGED <<lx_words, lx_lengths, map_lex, query, filterVars, searchVars>>

InitializeHashMap ==
  /\ lpc = "start" /\ ~map_lex.init
  /\ LET m == HashMapInitialize(lx_words, lx_lengths)
     IN  /\ map_lex' = [init |-> TRUE, panic |-> m.panic, words |-> m.words]
         /\ lpc' = IF m.panic THEN "panicked"
                   ELSE IF vec_lex.init THEN "ready" ELSE "start"
  /\ UNCHANGED <<lx_words, lx_lengths, vec_lex, query, filterVars, searchVars>>

Query(prefix, word_len) ==
  /\ lpc = "ready"
  /\ query' = [asked |-> TRUE, prefix |-> prefix, word_len |-> word_len,
               vec |-> VecWordsWithPrefix(vec_lex, prefix, word_len),
               map |-> HashMapWordsWithPrefix(map_lex, prefix, word_len)]
  /\ UNCHANGED <<lx_words, lx_lengths, vec_lex, map_lex, lpc, filterVars,
                 searchVars>>

LexNext ==
  \/ InitializeVec
  \/ InitializeHashMap
  \/ \E prefix \in StringsUpTo(LexChars, MaxLexBytes),
        word_len \in 0..MaxLexBytes : Query(prefix, word_len)

LexSpec == LexInit /\ [][LexNext]_vars

(***************************************************************************)
(* main and solve_word_box.                                                *)
(*                                                                         *)
(* main fixes row_dim = col_dim (6 in the source; 1..MaxDim here), builds  *)
(* a HashMapLexicon over the lengths [row_dim, col_dim] and runs one       *)
(* symmetric search per word of words_with_prefix("", col_dim), in order.  *)
(* mode "empty" is the other start: one search from the empty box that is  *)
(* not symmetric, over any dimensions.  HashMapLexicon::initialize only    *)
(* returns when every retained word is ASCII, so the dictionaries of this  *)
(* specification are ASCII.                                                *)
(***************************************************************************)
SearchChars == {"a", "b"}

\* "cat", "cot", "car", "art", "tar", "rat"
CatDict ==
  << <<"c", "a", "t">>, <<"c", "o", "t">>, <<"c", "a", "r">>,
     <<"a", "r", "t">>, <<"t", "a", "r">>, <<"r", "a", "t">> >>

\* "abc"
AbcDict == << <<"a", "b", "c">> >>

\* "aba", "bab": the symmetric box aba / bab / aba
AbaDict == << <<"a", "b", "a">>, <<"b", "a", "b">> >>

\* The word lists of a row_dim x col_dim run: up to max words over
\* SearchChars, of the two lengths the lexicon retains.
Dictionaries(rd, cd, max) ==
  VecsUpTo(UNION {[1..n -> SearchChars] : n \in {rd, cd}}, max)

\* The 3 x 3 runs over the fixed dictionaries.
IsScenario(dict) == words = dict /\ row_dim = 3 /\ col_dim = 3

\* the words main iterates over (line 240)
Seeds == words_with_prefix(lexicon, <<>>, col_dim)

\* the box main hands to solve_word_box for a seed word (lines 244-250)
SeedBox(word) == WordBox(row_dim, col_dim, <<word>>, <<word>>, TRUE)

EmptyBox == WordBox(row_dim, col_dim, <<>>, <<>>, FALSE)

InitUpTo(max) ==
  /\ \/ /\ row_dim \in 1..MaxDim /\ col_dim \in 1..MaxDim
        /\ words \in Dictionaries(row_dim, col_dim, max)
     \/ /\ row_dim = 3 /\ col_dim = 3
        /\ words \in {CatDict, AbcDict, AbaDict}
  /\ mode \in {"driver", "empty"}
  /\ mode = "driver" => row_dim = col_dim
  /\ lexicon = HashMapInitialize(words, <<row_dim, col_dim>>)
  /\ ~lexicon.panic
  /\ seed_idx = 0 /\ boxes = <<>> /\ wb = NoBox /\ result = None
  /\ printed = <<>> /\ pc = "main" /\ pops = <<>> /\ born = <<>>
  /\ FilterIdle /\ LexIdle

Init == InitUpTo(MaxWords)

\* main, lines 242-252: the next seed word's search starts
CallSolveSeed ==
  /\ pc = "main" /\ mode = "driver" /\ seed_idx < Len(Seeds)
  /\ boxes' = <<SeedBox(Seeds[seed_idx + 1])>>
  /\ seed_idx' = seed_idx + 1
  /\ pc' = "loop" /\ pops' = <<>> /\ wb' = NoBox /\ result' = None
  /\ born' = <<[iter |-> 0, k |-> 1]>>
  /\ UNCHANGED <<words, row_dim, col_dim, lexicon, mode, printed,
                 filterVars, lexVars>>

\* the search from the empty box that is not symmetric starts
CallSolveEmpty ==
  /\ pc = "main" /\ mode = "empty" /\ seed_idx = 0
  /\ boxes' = <<EmptyBox>>
  /\ seed_idx' = 1
  /\ pc' = "loop" /\ pops' = <<>> /\ wb' = NoBox /\ result' = None
  /\ born' = <<[iter |-> 0, k |-> 1]>>
  /\ UNCHANGED <<words, row_dim, col_dim, lexicon, mode, printed,
                 filterVars, lexVars>>

\* lines 209, 227: the frontier is empty
ReturnNone ==
  /\ pc = "loop" /\ boxes = <<>>
  /\ result' = None /\ pc' = "returned"
  /\ UNCHANGED <<words, row_dim, col_dim, lexicon, mode, seed_idx, boxes, wb,
                 printed, pops, born, filterVars, lexVars>>

\* lines 210-215: the box popped is done
ReturnSome ==
  /\ pc = "loop" /\ boxes # <<>> /\ is_done(Head(boxes))
  /\ wb' = Head(boxes) /\ boxes' = PopFront(boxes)
  /\ pops' = Append(pops, Head(boxes))
  /\ born' = PopFront(born)
  /\ result' = Some(Head(boxes)) /\ pc' = "returned"
  /\ UNCHANGED <<words, row_dim, col_dim, lexicon, mode, seed_idx, printed,
                 filterVars, lexVars>>

\* lines 210-225: the box popped is not done; its valid children are pushed
Expand ==
  /\ pc = "loop" /\ boxes # <<>> /\ ~is_done(Head(boxes))
  /\ wb' = Head(boxes)
  /\ pops' = Append(pops, Head(boxes))
  /\ IF PrefixPanics(Head(boxes))
     THEN pc' = "panicked" /\ boxes' = PopFront(boxes) /\ born' = PopFront(born)
     ELSE IF ChoicesPanic(Head(boxes), lexicon)
          THEN /\ pc' = "panicked"
               /\ boxes' = PopFront(boxes) /\ born' = PopFront(born)
          ELSE /\ pc' = "loop"
               /\ boxes' = PushChildren(PopFront(boxes), Head(boxes),
                                        Choices(Head(boxes), lexicon))
               /\ born' = PushFrontAll(PopFront(born),
                                       Births(Len(pops) + 1,
                                              Choices(Head(boxes), lexicon)))
  /\ UNCHANGED <<words, row_dim, col_dim, lexicon, mode, seed_idx, result,
                 printed, filterVars, lexVars>>

\* main, lines 254-261: a box found is printed; the loop goes on
MatchResult ==
  /\ pc = "returned"
  /\ printed' = IF result.some THEN Append(printed, result.box) ELSE printed
  /\ pc' = "main"
  /\ UNCHANGED <<words, row_dim, col_dim, lexicon, mode, seed_idx, boxes, wb,
                 result, pops, born, filterVars, lexVars>>

\* main, lines 263-265: every search has run
Exit ==
  /\ pc = "main"
  /\ seed_idx = (IF mode = "driver" THEN Len(Seeds) ELSE 1)
  /\ pc' = "exit"
  /\ UNCHANGED <<words, row_dim, col_dim, lexicon, mode, seed_idx, boxes, wb,
                 result, printed, pops, born, filterVars, lexVars>>

Next ==
  \/ CallSolveSeed
  \/ CallSolveEmpty
  \/ ReturnNone
  \/ ReturnSome
  \/ Expand
  \/ MatchResult
  \/ Exit

Spec == Init /\ [][Next]_vars

\* The loop of solve_word_box and the loop of main run on: no step waits.
\* The word lists are shorter here, to keep the search for cycles short.
FairInit == InitUpTo(MaxFairWords)

FairSpec == FairInit /\ [][Next]_vars /\ WF_vars(Next)

(***************************************************************************)
(* What the properties speak of, stated from the word list alone.          *)
(***************************************************************************)
\* The lexicon's dictionary: the words whose length is row_dim or col_dim.
Dict ==
  {words[n] : n \in {k \in 1..Len(words) : ByteLen(words[k]) \in {row_dim, col_dim}}}

\* The j-th column of the rows R, top to bottom.
Column(R, j) == [i \in 1..Len(R) |-> R[i][j]]

\* R is a word box: row_dim rows, each a word of length col_dim, and every
\* column a word of length row_dim.
IsWordBox(R) ==
  /\ Len(R) = row_dim
  /\ \A i \in 1..Len(R) : R[i] \in Dict /\ Len(R[i]) = col_dim
  /\ \A j \in 1..col_dim : Column(R, j) \in Dict /\ Len(Column(R, j)) = row_dim

IsSymmetric(R) ==
  \A i \in 1..Len(R) : \A j \in 1..Len(R) : R[i][j] = R[j][i]

\* Every grid of row_dim rows over the dictionary's words of length col_dim.
Grids == [1..row_dim -> {w \in Dict : Len(w) = col_dim}]

\* Some dictionary word of length row_dim starts with the column's chars.
ColumnExtendable(R, j) ==
  \E w \in Dict : Len(w) = row_dim /\ StartsWith(w, Column(R, j))

ColumnsExtendable(R) == \A j \in 1..col_dim : ColumnExtendable(R, j)

Returned == pc = "returned"

(***************************************************************************)
(* C1.  A box returned as Some is a word box over the dictionary: it has   *)
(* row_dim rows, every row is a dictionary word of length col_dim and      *)
(* every column a dictionary word of length row_dim, from the driver's     *)
(* seeds and from the empty box that is not symmetric.                     *)
(***************************************************************************)
C1_ReturnedBoxIsWordBox ==
  (Returned /\ result.some) => IsWordBox(result.box.rows)

C1_Witness ==
  /\ Returned /\ result.some /\ mode = "empty"
  /\ row_dim >= 2 /\ col_dim >= 2
  /\ result.box.rows[1] # result.box.rows[2]

(***************************************************************************)
(* C2.  A box returned by a symmetric search equals its transpose:         *)
(* R[i][j] = R[j][i] for all i, j, so column i is the word of row i.       *)
(***************************************************************************)
C2_SymmetricResult ==
  (Returned /\ result.some /\ mode = "driver") =>
    /\ IsSymmetric(result.box.rows)
    /\ \A i \in 1..row_dim : Column(result.box.rows, i) = result.box.rows[i]

C2_Witness ==
  /\ Returned /\ result.some /\ mode = "driver" /\ row_dim >= 2
  /\ result.box.rows[1] # result.box.rows[2]

(***************************************************************************)
(* C3.  When a search returns None, no word box extends its seed: from a   *)
(* driver's seed no symmetric word box has the seed word as first row,     *)
(* and from the empty box there is no word box at all.                     *)
(***************************************************************************)
C3_ExhaustionCorrect ==
  (Returned /\ ~result.some) =>
    IF mode = "driver"
    THEN ~\E R \in Grids :
            IsWordBox(R) /\ IsSymmetric(R) /\ R[1] = pops[1].rows[1]
    ELSE ~\E R \in Grids : IsWordBox(R)

\* None after boxes were expanded and their children dropped
C3_Witness ==
  /\ Returned /\ ~result.some /\ Len(pops) >= 3
  /\ \E k \in 1..Len(words) : ByteLen(words[k]) = col_dim

(***************************************************************************)
(* C4.  As claimed: over "cat", "cot", "car", "art", "tar", "rat", 3 x 3,  *)
(* solving finds a box.                                                    *)
(***************************************************************************)
C4_CatDictFindsBox ==
  (IsScenario(CatDict) /\ pc = "exit") => printed # <<>>

(***************************************************************************)
(* C4, amended.  Over that dictionary no 3 x 3 word box exists (the        *)
(* middle letters of the words are a, o, r, and no word is made of them),  *)
(* and every search returns None: nothing is printed.                      *)
(***************************************************************************)
C4_CatDictHasNoBox ==
  IsScenario(CatDict) =>
    /\ ~\E R \in Grids : IsWordBox(R)
    /\ Returned => ~result.some
    /\ printed = <<>>

C4_Witness ==
  /\ IsScenario(CatDict) /\ pc = "exit" /\ mode = "driver"
  /\ seed_idx = Len(CatDict)

(***************************************************************************)
(* C5.  solve_word_box terminates: once started it returns, after at most  *)
(* 1 + n + ... + n^row_dim iterations, n the number of words of length     *)
(* col_dim; over "abc", 3 x 3, not symmetric, it returns None.             *)
(***************************************************************************)
RECURSIVE GeometricSum(_, _)
GeometricSum(n, k) == IF k = 0 THEN 1 ELSE 1 + n * GeometricSum(n, k - 1)

IterationBound ==
  GeometricSum(Cardinality({k \in 1..Len(words) : ByteLen(words[k]) = col_dim}),
               row_dim)

C5_SearchTerminates ==
  /\ (pc = "loop") ~> Returned
  /\ [](Len(pops) <= IterationBound)
  /\ []((IsScenario(AbcDict) /\ mode = "empty" /\ Returned) => ~result.some)

C5_Witness ==
  IsScenario(AbcDict) /\ mode = "empty" /\ Returned /\ ~result.some

(***************************************************************************)
(* C6.  As claimed: built from one word list and one list of lengths, the  *)
(* two lexicons are both there to be queried and return, for every prefix  *)
(* and word_len, the retained words of word_len chars that begin with the  *)
(* prefix.                                                                 *)
(***************************************************************************)
C6_LexiconsAgree ==
  /\ lpc # "panicked"
  /\ query.asked =>
       /\ query.vec = query.map
       /\ query.vec =
            SelectSeq(lx_words,
                      LAMBDA w : /\ Contains(lx_lengths, ByteLen(w))
                                 /\ Len(w) = query.word_len
                                 /\ StartsWith(w, query.prefix))

\* C6 on word lists without a char of more than one byte: there the two
\* lexicons are built and agree.
C6_AgreeOnAscii ==
  (\A k \in 1..Len(lx_words) : \A i \in 1..Len(lx_words[k]) :
      Utf8Len(lx_words[k][i]) = 1)
    => C6_LexiconsAgree

(***************************************************************************)
(* C7.  As claimed: a line is retained if and only if all its chars are    *)
(* lowercase letters.                                                      *)
(***************************************************************************)
\* The lines the reader yields before its first Err.
ReadTexts ==
  LET stop == {k \in 1..Len(lines) : ~lines[k].ok}
      n == IF stop = {} THEN Len(lines)
           ELSE (CHOOSE k \in stop : \A m \in stop : k <= m) - 1
  IN  [k \in 1..n |-> lines[k].text]

IsChildOf(c, b) ==
  /\ c.row_dim = b.row_dim /\ c.col_dim = b.col_dim
  /\ c.is_symmetric = b.is_symmetric
  /\ Len(c.rows) = Len(b.rows) + 1
  /\ SubSeq(c.rows, 1, Len(b.rows)) = b.rows
  /\ c.cols = IF b.is_symmetric
              THEN b.cols \o <<c.rows[Len(c.rows)]>>
              ELSE b.cols

\* The words the next row may be: the dictionary's words of length col_dim
\* that start with the chars fixed by cols and keep every column extendable.
ValidNextRows(b) ==
  SelectSeq(words,
            LAMBDA w : /\ ByteLen(w) = col_dim
                       /\ StartsWith(w, [k \in 1..Len(b.cols) |->
                                           b.cols[k][Len(b.rows) + 1]])
                       /\ ColumnsExtendable(Append(b.rows, w)))

C8_AddWordFrame ==
  (pc = "loop" /\ pops # <<>>) =>
    /\ wb = pops[Len(pops)]
    /\ Len(boxes) >= Len(ValidNextRows(wb))
    /\ \A k \in 1..Len(ValidNextRows(wb)) : IsChildOf(boxes[k], wb)

\* two siblings pushed from one parent that has rows, in either mode
C8_Witness ==
  /\ pc = "loop" /\ pops # <<>> /\ wb.rows # <<>> /\ ~wb.is_symmetric
  /\ Len(ValidNextRows(wb)) >= 2

(***************************************************************************)
(* C9.  As claimed: in a driver's run every box of the frontier, the seed  *)
(* box too, has every column extendable to a word of length row_dim.       *)
(***************************************************************************)
C9_FrontierColumnsExtendable ==
  (pc = "loop" /\ mode = "driver") =>
    \A k \in 1..Len(boxes) : ColumnsExtendable(boxes[k].rows)

(***************************************************************************)
(* C9, amended.  In a driver's run every box of the frontier other than    *)
(* the seed box (every box an expansion pushed) has every column           *)
(* extendable to a word of length row_dim; the seed box is never tested.   *)
(***************************************************************************)
C9_PushedBoxesColumnsExtendable ==
  (pc = "loop" /\ mode = "driver") =>
    \A k \in 1..Len(boxes) :
      Len(boxes[k].rows) >= 2 => ColumnsExtendable(boxes[k].rows)

C9_Witness ==
  /\ pc = "loop" /\ mode = "driver" /\ boxes # <<>>
  /\ Len(Head(boxes).rows) = 2 /\ row_dim = 3

(***************************************************************************)
(* C10.  The frontier is a stack: a step pops the front box; a done box    *)
(* popped is returned at once and nothing is pushed; the children of a     *)
(* box that is not done go in front of the boxes that were waiting, the    *)
(* child of the last valid candidate first; and the boxes that were        *)
(* waiting are popped only after every box pushed since.                   *)
(***************************************************************************)
\* x was pushed after y
Newer(x, y) == x.iter > y.iter \/ (x.iter = y.iter /\ x.k > y.k)

\* Front to back the frontier runs from the box pushed last to the box
\* pushed first: the front box, the one popped, is always the newest.
NewestFirst ==
  /\ Len(born) = Len(boxes)
  /\ \A p \in 1..Len(born) : \A q \in (p + 1)..Len(born) :
       Newer(born[p], born[q])

FrontierStep ==
  (pc = "loop" /\ boxes # <<>>) =>
    /\ wb' = Head(boxes)
    /\ is_done(Head(boxes)) =>
         pc' = "returned" /\ result' = Some(Head(boxes)) /\ boxes' = Tail(boxes)
    /\ ~is_done(Head(boxes)) =>
         LET n == Len(ValidNextRows(Head(boxes)))
         IN  /\ pc' = "loop"
             /\ Len(boxes') = n + Len(boxes) - 1
             /\ SubSeq(boxes', n + 1, Len(boxes')) = Tail(boxes)
             /\ \A k \in 1..n : IsChildOf(boxes'[k], Head(boxes))
             /\ n >= 1 =>
                  boxes'[1].rows =
                    Append(Head(boxes).rows, ValidNextRows(Head(boxes))[n])

C10_FrontierIsStack == [][FrontierStep]_vars /\ []NewestFirst

\* a box still waits in the frontier after a grandchild was popped
C10_Witness ==
  /\ Len(pops) >= 3 /\ boxes # <<>>
  /\ Len(pops[Len(pops)].rows) = Len(pops[Len(pops) - 1].rows) + 1
  /\ Len(pops[Len(pops) - 1].rows) = Len(pops[Len(pops) - 2].rows) + 1
  /\ Len(boxes[Len(boxes)].rows) < Len(pops[Len(pops)].rows)

====
